---- MODULE Spec2Model ----
(***************************************************************************)
(* Model of src/src/orange_analyzer.py: the OrangeAnalyzer that turns the  *)
(* free-text replies of a vision capability into OrangeAnalysisResult      *)
(* records and ranks several images, with a per-image fallback.            *)
(*                                                                         *)
(* Python values are tagged records (t is the Python type), so that None,  *)
(* numbers, strings, lists and dicts can live in one field.  A Python str  *)
(* is a sequence of text pieces; an f-string is the concatenation of the   *)
(* pieces of its parts.  An exception is an outcome of kind "raise".       *)
(***************************************************************************)
EXTENDS Integers, Sequences, FiniteSets, TLC

VARIABLES pc, op, images, text, calls, fallbacks, parsed, ret

vars == <<pc, op, images, text, calls, fallbacks, parsed, ret>>

(***************************************************************************)
(* Bounds of the model.                                                    *)
(***************************************************************************)
MaxImages == 2

(***************************************************************************)
(* Python values.                                                          *)
(***************************************************************************)
JNone == [t |-> "none"]
JInt(n) == [t |-> "int", v |-> n]
JStr(s) == [t |-> "str", v |-> s]
JBool(b) == [t |-> "bool", v |-> b]
JList(s) == [t |-> "list", v |-> s]
JDict(f) == [t |-> "dict", v |-> f]

\* A key that a generated object leaves out, and a text that is no JSON document.
Missing == [t |-> "missing"]
Malformed == [t |-> "malformed"]

\* bool(x): the truth value Python's `not`, `and`, `or` and `if` give a value.
Truthy(x) ==
    CASE x.t = "none" -> FALSE
      [] x.t = "bool" -> x.v
      [] x.t = "int" -> x.v # 0
      [] x.t = "str" -> x.v # <<>>
      [] x.t = "list" -> x.v # <<>>
      [] x.t = "dict" -> DOMAIN x.v # {}

\* a or b
PyOr(a, b) == IF Truthy(a) THEN a ELSE b

\* type(x).__name__
TypeName(x) ==
    CASE x.t = "none" -> "NoneType"
      [] x.t = "bool" -> "bool"
      [] x.t = "int" -> "int"
      [] x.t = "str" -> "str"
      [] x.t = "list" -> "list"
      [] x.t = "dict" -> "dict"

\* str(x), as the pieces of the text an f-string inserts for x.
PyFormat(x) ==
    CASE x.t = "none" -> <<"None">>
      [] x.t = "bool" -> IF x.v THEN <<"True">> ELSE <<"False">>
      [] x.t = "int" -> <<ToString(x.v)>>
      [] x.t = "str" -> x.v
      [] x.t = "list" -> <<"[", "...", "]">>
      [] x.t = "dict" -> <<"{", "...", "}">>

\* data.get(key, default)
DictGet(data, key, default) ==
    IF key \in DOMAIN data.v THEN data.v[key] ELSE default

\* The outcome of a call: a returned value or a raised exception.
Return(v) == [kind |-> "return", value |-> v]
Raise(type, msg) == [kind |-> "raise", exc |-> type, text |-> msg]
NotCalled == [kind |-> "notcalled"]

(***************************************************************************)
(* OrangeAnalysisResult                                                    *)
(***************************************************************************)
ResultFields ==
    {"is_orange", "sweetness_grade", "brix_range", "brix_min", "brix_max",
     "sweetness_score", "confidence_score", "rank", "analysis_reason",
     "color_analysis", "surface_analysis", "ripeness_analysis", "error_message"}

\* OrangeAnalysisResult(is_orange=False, error_message=msg): every other
\* field keeps its default, None.
ErrorResult(msg) ==
    [f \in ResultFields |->
        IF f = "is_orange" THEN JBool(FALSE)
        ELSE IF f = "error_message" THEN JStr(msg)
        ELSE JNone]

NotOrangeMessage == <<"This is not an orange image. Please upload an orange photo.">>
ParseErrorMessage == <<"Could not parse analysis result. Please try again.">>
AnalysisErrorPrefix == <<"Error during analysis: ">>

(***************************************************************************)
(* The text of a reply: a sequence of segments.  A "fence" segment is a    *)
(* ```json ... ``` block around a JSON source, a "json" segment is a bare  *)
(* JSON source, a "prose" segment is any other text.  A JSON source is     *)
(* the value it decodes to, or Malformed.                                  *)
(***************************************************************************)
Fence(src) == [seg |-> "fence", src |-> src]
Bare(src) == [seg |-> "json", src |-> src]
Prose == [seg |-> "prose"]

\* re.search(r'```json\s*(.*?)\s*```', response, re.DOTALL) and the choice
\* between group(1) and response.strip().
ExtractJson(response) ==
    LET fences == {i \in 1..Len(response) : response[i].seg = "fence"}
    IN  IF fences # {}
        THEN response[CHOOSE i \in fences : \A j \in fences : i <= j].src
        ELSE IF Len(response) = 1 /\ response[1].seg = "json"
             THEN response[1].src
             ELSE Malformed

\* json.loads(json_str)
JsonLoads(src) ==
    IF src = Malformed
    THEN Raise("JSONDecodeError", <<"Expecting value">>)
    ELSE Return(src)

\* f"{brix_min}~{brix_max}" if brix_min and brix_max else None
BrixRange(brix_min, brix_max) ==
    IF Truthy(brix_min) /\ Truthy(brix_max)
    THEN JStr(PyFormat(brix_min) \o <<"~">> \o PyFormat(brix_max))
    ELSE JNone

\* x.get(...) on a value that is no dict
NoGet(x) ==
    Raise("AttributeError",
          <<"'", TypeName(x), "' object has no attribute 'get'">>)

\* A variant that keeps the score the object supplies.
NotOrangeKeepsScore(data) ==
    [ErrorResult(NotOrangeMessage) EXCEPT
        !.sweetness_score = DictGet(data, "sweetness_score", JNone)]

\* The result for an object whose is_orange is falsy or absent: whatever
\* else the object supplies is dropped.
NotOrangeResult(data) == ErrorResult(NotOrangeMessage)

\* The result built from an object that is an orange: every key is read
\* with data.get, so a key left out gives None.
SingleResult(data) ==
    [is_orange |-> JBool(TRUE),
     sweetness_grade |-> DictGet(data, "sweetness_grade", JNone),
     brix_range |-> BrixRange(DictGet(data, "brix_min", JNone),
                              DictGet(data, "brix_max", JNone)),
     brix_min |-> DictGet(data, "brix_min", JNone),
     brix_max |-> DictGet(data, "brix_max", JNone),
     sweetness_score |-> DictGet(data, "sweetness_score", JNone),
     confidence_score |-> DictGet(data, "confidence_score", JNone),
     rank |-> JNone,
     analysis_reason |-> DictGet(data, "analysis_reason", JNone),
     color_analysis |-> DictGet(data, "color_analysis", JNone),
     surface_analysis |-> DictGet(data, "surface_analysis", JNone),
     ripeness_analysis |-> DictGet(data, "ripeness_analysis", JNone),
     error_message |-> JNone]

\* _parse_single_response from `data = json.loads(json_str)` on.
ParseSingleData(data) ==
    IF data.t # "dict"
    THEN NoGet(data)
    ELSE IF ~Truthy(DictGet(data, "is_orange", JBool(FALSE)))
    THEN Return(NotOrangeResult(data))
    ELSE Return(SingleResult(data))

\* _parse_single_response once json.loads returned or raised.
ParseSingleLoaded(loaded) ==
    IF loaded.kind = "raise"
    THEN Return(ErrorResult(ParseErrorMessage))
    ELSE ParseSingleData(loaded.value)

\* OrangeAnalyzer._parse_single_response
ParseSingleResponse(response) ==
    ParseSingleLoaded(JsonLoads(ExtractJson(response)))

\* A variant that reports the failure without its text.
AnalysisFailureUntold(msg) == ErrorResult(AnalysisErrorPrefix)

\* The result of the `except Exception as e` of analyze, msg being str(e).
AnalysisFailure(msg) == ErrorResult(AnalysisErrorPrefix \o msg)

\* The `except Exception` of analyze around an outcome.
CaughtByAnalyze(outcome) ==
    IF outcome.kind = "raise"
    THEN Return(AnalysisFailure(outcome.text))
    ELSE outcome

\* OrangeAnalyzer.analyze, given what vision_api.analyze_image did: the
\* `except Exception` covers the capability call and the parse alike.
AnalyzeImage(reply) ==
    IF reply.kind = "raise"
    THEN CaughtByAnalyze(reply)
    ELSE CaughtByAnalyze(ParseSingleResponse(reply.value))

(***************************************************************************)
(* Inputs: what the vision capability may answer to a single-image call.   *)
(***************************************************************************)
MkDict(f) == JDict([k \in {k \in DOMAIN f : f[k] # Missing} |-> f[k]])

IsOrangeValues == {Missing, JBool(FALSE), JBool(TRUE)}
ScoreValues == {Missing, JInt(0), JInt(10), JInt(-5), JStr(<<"8", "5">>)}
BrixMinValues == {Missing, JInt(0), JInt(12)}
BrixMaxValues == {Missing, JInt(0), JInt(14)}

\* The free-text fields, all given or all left out.
Rationale(given) ==
    [sweetness_grade |-> IF given THEN JStr(<<"High">>) ELSE Missing,
     confidence_score |-> IF given THEN JInt(80) ELSE Missing,
     analysis_reason |-> IF given THEN JStr(<<"High quality">>) ELSE Missing,
     color_analysis |-> IF given THEN JStr(<<"deep orange">>) ELSE Missing,
     surface_analysis |-> IF given THEN JStr(<<"smooth">>) ELSE Missing,
     ripeness_analysis |-> IF given THEN JStr(<<"ripe">>) ELSE Missing]

SingleObject(iso, score, bmin, bmax, given) ==
    MkDict([k \in {"is_orange", "sweetness_score", "brix_min", "brix_max"}
                  \cup DOMAIN Rationale(given) |->
              CASE k = "is_orange" -> iso
                [] k = "sweetness_score" -> score
                [] k = "brix_min" -> bmin
                [] k = "brix_max" -> bmax
                [] OTHER -> Rationale(given)[k]])

SingleObjects ==
    {SingleObject(iso, score, bmin, bmax, given) :
        iso \in IsOrangeValues, score \in ScoreValues,
        bmin \in BrixMinValues, bmax \in BrixMaxValues, given \in BOOLEAN}

\* Documents that decode, but not to an object.
NonObjects == {JNone, JInt(7), JStr(<<"orange">>), JList(<<>>)}

SingleSources == SingleObjects \cup NonObjects \cup {Malformed}

SingleTexts ==
    {<<Bare(s)>> : s \in SingleSources}
    \cup {<<Prose, Fence(s), Prose>> : s \in SingleSources}
    \cup {<<Fence(s), Fence(Malformed)>> : s \in SingleSources}
    \cup {<<>>, <<Prose>>, <<Prose, Bare(JDict(<<>>))>>}

\* str(e) of the failures the capability raises.
FailureTexts == {<<"insufficient credit balance">>, <<>>}

SingleReplies ==
    {Return(t) : t \in SingleTexts}
    \cup {Raise("Exception", e) : e \in FailureTexts}

(***************************************************************************)
(* list.sort(key=..., reverse=...): a stable sort that compares keys with  *)
(* `<` alone, and raises TypeError when two keys cannot be compared.       *)
(***************************************************************************)
Digits == <<"0", "1", "2", "3", "4", "5", "6", "7", "8", "9">>
Ord(c) == CHOOSE i \in 1..Len(Digits) : Digits[i] = c

\* a < b on two str, character by character.
RECURSIVE StrLess(_, _)
StrLess(a, b) ==
    IF b = <<>> THEN FALSE
    ELSE IF a = <<>> THEN TRUE
    ELSE IF Head(a) = Head(b) THEN StrLess(Tail(a), Tail(b))
    ELSE Ord(Head(a)) < Ord(Head(b))

\* The classes of values that `<` orders among themselves.
KeyClass(k) ==
    IF k.t \in {"int", "bool"} THEN "number"
    ELSE IF k.t = "str" THEN "str"
    ELSE "unordered"

NumberOf(k) == IF k.t = "bool" THEN (IF k.v THEN 1 ELSE 0) ELSE k.v

KeyLess(a, b) ==
    IF KeyClass(a) = "number" THEN NumberOf(a) < NumberOf(b)
    ELSE StrLess(a.v, b.v)

\* Whether sorting these keys compares two values `<` does not support.
Unorderable(keys) ==
    /\ Len(keys) >= 2
    /\ \/ \E i \in 1..Len(keys) : KeyClass(keys[i]) = "unordered"
       \/ \E i, j \in 1..Len(keys) : KeyClass(keys[i]) # KeyClass(keys[j])

\* The position list.sort gives item i: after every item that sorts before
\* it, and after the earlier items with an equal key (the sort is stable,
\* with reverse=True too).
SortedPosition(keys, reverse, i) ==
    LET Before(j) == IF reverse THEN KeyLess(keys[i], keys[j])
                     ELSE KeyLess(keys[j], keys[i])
        Equal(j) == ~KeyLess(keys[i], keys[j]) /\ ~KeyLess(keys[j], keys[i])
    IN  1 + Cardinality({j \in 1..Len(keys) : Before(j)})
          + Cardinality({j \in 1..(i - 1) : Equal(j)})

ListSort(items, keys, reverse) ==
    IF Unorderable(keys)
    THEN Raise("TypeError", <<"'<' not supported between instances">>)
    ELSE Return([p \in 1..Len(items) |->
            items[CHOOSE i \in 1..Len(items) : SortedPosition(keys, reverse, i) = p]])

(***************************************************************************)
(* Calls of the vision capability, in the order they are made.             *)
(***************************************************************************)
\* vision_api.analyze_image for the image at position `image` of the list.
SingleCall(image, reply) ==
    [fn |-> "analyze_image", image |-> image, reply |-> reply]

\* vision_api.analyze_multiple_images for the whole list.
MultiCall(reply) ==
    [fn |-> "analyze_multiple_images", image |-> 0, reply |-> reply]

\* What a method did: its outcome, the capability calls it made, how many
\* times it entered the fallback, and the outcome of _parse_multi_response.
Effect(out, made, fb, inner) ==
    [out |-> out, calls |-> made, fallbacks |-> fb, parsed |-> inner]

(***************************************************************************)
(* The fallback: one analysis per image, then a local ranking.             *)
(***************************************************************************)
NotOrangeKey == -1

\* sort_key(item)
SortKey(result) ==
    IF ~Truthy(result.is_orange)
    THEN JInt(NotOrangeKey)
    ELSE PyOr(PyOr(result.sweetness_score, result.brix_max), JInt(0))

\* A variant that numbers the results from 0.
AssignRanksFromZero(results) ==
    [p \in 1..Len(results) |->
        <<results[p][1], [results[p][2] EXCEPT !.rank = JInt(p - 1)]>>]

\* for rank, (filename, result) in enumerate(results, 1): result.rank = rank
AssignRanks(results) ==
    [p \in 1..Len(results) |->
        <<results[p][1], [results[p][2] EXCEPT !.rank = JInt(p)]>>]

\* The single-image calls made for the first k images.
SinglesCalled(replies, k) == [i \in 1..k |-> SingleCall(i, replies[i])]

\* The end of the fallback: the sort raised, or the ranks are assigned.
FallbackSorted(replies, sorted) ==
    IF sorted.kind = "raise"
    THEN Effect(sorted, SinglesCalled(replies, Len(replies)), 1, NotCalled)
    ELSE Effect(Return(AssignRanks(sorted.value)),
                SinglesCalled(replies, Len(replies)), 1, NotCalled)

\* results.sort(key=sort_key, reverse=True) and what follows it.
FallbackRank(replies, results) ==
    FallbackSorted(replies,
        ListSort(results, [i \in 1..Len(results) |-> SortKey(results[i][2])], TRUE))

\* The fallback once every image has been analysed: the first analyze that
\* raised ends it, otherwise the results are ranked.
FallbackAnalysed(imgs, replies, analysed) ==
    IF \E i \in 1..Len(imgs) : analysed[i].kind = "raise"
    THEN Effect(analysed[CHOOSE i \in 1..Len(imgs) :
                            /\ analysed[i].kind = "raise"
                            /\ \A j \in 1..(i - 1) : analysed[j].kind # "raise"],
                SinglesCalled(replies,
                    CHOOSE i \in 1..Len(imgs) :
                        /\ analysed[i].kind = "raise"
                        /\ \A j \in 1..(i - 1) : analysed[j].kind # "raise"),
                1, NotCalled)
    ELSE FallbackRank(SubSeq(replies, 1, Len(imgs)),
                      [i \in 1..Len(imgs) |-> <<imgs[i], analysed[i].value>>])

\* OrangeAnalyzer._fallback_individual_analysis; `replies` are the answers
\* of the capability to the calls made from here on, in order.
FallbackIndividualAnalysis(imgs, replies) ==
    FallbackAnalysed(imgs, replies,
        [i \in 1..Len(imgs) |-> AnalyzeImage(replies[i])])

(***************************************************************************)
(* The batch reply.                                                        *)
(***************************************************************************)
MissingRankKey == 999

\* The elements a `for data in data_list` loop visits.
RECURSIVE KeysOf(_)
KeysOf(S) ==
    IF S = {} THEN <<>>
    ELSE LET k == CHOOSE k \in S : TRUE
         IN  <<JStr(<<k>>)>> \o KeysOf(S \ {k})

Iterate(x) ==
    CASE x.t = "list" -> Return(x.v)
      [] x.t = "dict" -> Return(KeysOf(DOMAIN x.v))
      [] x.t = "str" -> Return([i \in 1..Len(x.v) |-> JStr(<<x.v[i]>>)])
      [] OTHER -> Raise("TypeError", <<"'", TypeName(x), "' object is not iterable">>)

\* f"{analysis_reason} ({comparison_note})" if comparison_note
CombinedReason(data) ==
    LET comparison_note == DictGet(data, "comparison_note", JStr(<<>>))
        analysis_reason == DictGet(data, "analysis_reason", JStr(<<>>))
    IN  IF Truthy(comparison_note)
        THEN JStr(PyFormat(analysis_reason) \o <<" (">>
                  \o PyFormat(comparison_note) \o <<")">>)
        ELSE analysis_reason

\* A variant that takes image_index for a position counted from 0.
ImageOffsetZeroBased(image_index) == NumberOf(image_index)

\* img_idx = data.get("image_index", 1) - 1, on a number.
ImageOffset(image_index) == NumberOf(image_index) - 1

\* The result built from one element of the array.
BatchResult(data) ==
    [is_orange |-> JBool(TRUE),
     sweetness_grade |-> DictGet(data, "sweetness_grade", JNone),
     brix_range |-> BrixRange(DictGet(data, "brix_min", JNone),
                              DictGet(data, "brix_max", JNone)),
     brix_min |-> DictGet(data, "brix_min", JNone),
     brix_max |-> DictGet(data, "brix_max", JNone),
     sweetness_score |-> DictGet(data, "sweetness_score", JNone),
     confidence_score |-> DictGet(data, "confidence_score", JNone),
     rank |-> DictGet(data, "rank", JNone),
     analysis_reason |-> CombinedReason(data),
     color_analysis |-> DictGet(data, "color_analysis", JNone),
     surface_analysis |-> DictGet(data, "surface_analysis", JNone),
     ripeness_analysis |-> DictGet(data, "ripeness_analysis", JNone),
     error_message |-> JNone]

\* if 0 <= img_idx < len(images): the entry appended, or none.
BatchEntryAt(data, imgs, img_idx) ==
    IF 0 <= img_idx /\ img_idx < Len(imgs)
    THEN Return(<< <<imgs[img_idx + 1], BatchResult(data)>> >>)
    ELSE Return(<<>>)

\* The loop body from `- 1` on: the subtraction needs a number.
BatchEntryFor(data, imgs, image_index) ==
    IF KeyClass(image_index) # "number"
    THEN Raise("TypeError", <<"unsupported operand type(s) for -">>)
    ELSE BatchEntryAt(data, imgs, ImageOffset(image_index))

\* One pass of the loop body: the entries it appends (none or one), or the
\* exception it raises.
BatchEntry(data, imgs) ==
    IF data.t # "dict"
    THEN NoGet(data)
    ELSE BatchEntryFor(data, imgs, DictGet(data, "image_index", JInt(1)))

\* The loop over data_list: the results collected, or the first exception.
RECURSIVE CollectEntries(_, _, _)
CollectNext(entry, elems, imgs, results) ==
    IF entry.kind = "raise" THEN entry
    ELSE CollectEntries(Tail(elems), imgs, results \o entry.value)

CollectEntries(elems, imgs, results) ==
    IF elems = <<>> THEN Return(results)
    ELSE CollectNext(BatchEntry(Head(elems), imgs), elems, imgs, results)

\* key=lambda x: x[1].rank if x[1].rank else 999
RankKey(entry) ==
    IF Truthy(entry[2].rank) THEN entry[2].rank ELSE JInt(MissingRankKey)

\* results.sort(key=...) on what the loop collected.
DecodeCollected(results) ==
    IF results.kind = "raise" THEN results
    ELSE ListSort(results.value,
                  [i \in 1..Len(results.value) |-> RankKey(results.value[i])],
                  FALSE)

\* The loop, once data_list is known to be iterable or not.
DecodeElements(elems, imgs) ==
    IF elems.kind = "raise" THEN elems
    ELSE DecodeCollected(CollectEntries(elems.value, imgs, <<>>))

\* The try block once json.loads returned or raised.
DecodeLoaded(loaded, imgs) ==
    IF loaded.kind = "raise" THEN loaded
    ELSE DecodeElements(Iterate(loaded.value), imgs)

\* The try block of _parse_multi_response.
DecodeBatch(response, imgs) ==
    DecodeLoaded(JsonLoads(ExtractJson(response)), imgs)

\* except (json.JSONDecodeError, KeyError, IndexError)
ParseHandles(exc) == exc \in {"JSONDecodeError", "KeyError", "IndexError"}

\* _parse_multi_response once its try block ended with `decoded`.
ParseDecoded(decoded, imgs, replies) ==
    IF decoded.kind = "raise" /\ ParseHandles(decoded.exc)
    THEN FallbackIndividualAnalysis(imgs, replies)
    ELSE Effect(decoded, <<>>, 0, NotCalled)

\* OrangeAnalyzer._parse_multi_response
ParseMultiResponse(response, imgs, replies) ==
    ParseDecoded(DecodeBatch(response, imgs), imgs, replies)

\* The replies left after a method made the calls `made`.
Rest(replies, made) == SubSeq(replies, Len(made) + 1, Len(replies))

\* What analyze_multiple did when its except handler ran the fallback:
\* `p` is what _parse_multi_response did before, `f` what the fallback did.
AfterFallback(multi, p, f) ==
    Effect(f.out, <<MultiCall(multi)>> \o p.calls \o f.calls,
           p.fallbacks + f.fallbacks, p.out)

\* The rest of analyze_multiple once _parse_multi_response did `p`: its
\* batch is returned, and any exception it raised starts the fallback.
AfterParse(imgs, multi, replies, p) ==
    IF p.out.kind = "raise"
    THEN AfterFallback(multi, p,
            FallbackIndividualAnalysis(imgs, Rest(replies, p.calls)))
    ELSE Effect(p.out, <<MultiCall(multi)>> \o p.calls, p.fallbacks, p.out)

\* analyze_multiple on several images: the multi-image call, the parse of
\* its reply, and the fallback when either raises.
CompareImages(imgs, multi, replies) ==
    IF multi.kind = "raise"
    THEN AfterFallback(multi, Effect(NotCalled, <<>>, 0, NotCalled),
            FallbackIndividualAnalysis(imgs, replies))
    ELSE AfterParse(imgs, multi, replies,
            ParseMultiResponse(multi.value, imgs, replies))

\* A variant that leaves the result of a single image unranked.
RankedNever(filename, result) ==
    IF result.kind = "raise" THEN result
    ELSE Return(<< <<filename, result.value>> >>)

\* result.rank = 1; return [(filename, result)]
RankedFirst(filename, result) ==
    IF result.kind = "raise" THEN result
    ELSE Return(<< <<filename, [result.value EXCEPT !.rank = JInt(1)]>> >>)

\* analyze_multiple on one image: analyze, then result.rank = 1.
AnalyzeOne(imgs, replies) ==
    Effect(RankedFirst(imgs[1], AnalyzeImage(replies[1])),
           <<SingleCall(1, replies[1])>>, 0, NotCalled)

\* OrangeAnalyzer.analyze_multiple, given the reply to the multi-image call
\* and the replies to the single-image calls, in order.
AnalyzeMultipleImages(imgs, multi, replies) ==
    IF Len(imgs) = 1
    THEN AnalyzeOne(imgs, replies)
    ELSE CompareImages(imgs, multi, replies)

(***************************************************************************)
(* Inputs: the image lists, the replies to the multi-image call, and the   *)
(* replies to the single-image calls of the fallback.                      *)
(***************************************************************************)
FileName(i) == "orange" \o ToString(i) \o ".jpg"

\* Lists of distinctly named uploads, and two uploads of the same name.
ImageLists ==
    {[i \in 1..n |-> FileName(i)] : n \in 1..MaxImages}
    \cup {<<FileName(1), FileName(1)>>}

IndexValues == {JInt(i) : i \in 0..(MaxImages + 1)}
RankValues == {Missing, JInt(0), JInt(1000)} \cup {JInt(r) : r \in 1..MaxImages}

\* What the elements of one reply say besides image_index and rank.
NoPayload ==
    [brix_min |-> Missing, brix_max |-> Missing, sweetness_score |-> Missing,
     analysis_reason |-> Missing, comparison_note |-> Missing]

Payloads ==
    {[brix_min |-> JInt(12), brix_max |-> JInt(14), sweetness_score |-> JInt(85),
      analysis_reason |-> JStr(<<"High quality">>),
      comparison_note |-> JStr(<<"brighter peel">>)],
     [brix_min |-> JInt(0), brix_max |-> JInt(5), sweetness_score |-> JInt(0),
      analysis_reason |-> JStr(<<"High quality">>), comparison_note |-> JStr(<<>>)],
     [brix_min |-> JInt(12), brix_max |-> Missing, sweetness_score |-> Missing,
      analysis_reason |-> Missing, comparison_note |-> Missing]}

BatchElement(image_index, rank, payload) ==
    MkDict([k \in {"image_index", "rank"} \cup DOMAIN payload |->
              CASE k = "image_index" -> image_index
                [] k = "rank" -> rank
                [] OTHER -> payload[k]])

\* An array of objects whose image_index and rank are numbers or left out:
\* element i has the index and the rank of skeleton[i].
BatchArray(skeleton, payload) ==
    JList([i \in 1..Len(skeleton) |->
            BatchElement(skeleton[i][1], skeleton[i][2], payload)])

\* The skeletons of the arrays of at most n elements.
Skeletons(n) == UNION {[1..k -> IndexValues \X RankValues] : k \in 0..n}

\* Documents that decode to something else.
OddBatches ==
    {JInt(7),
     JDict(<<>>),
     BatchElement(JInt(1), JInt(1), NoPayload),
     JList(<<JInt(1), JInt(2)>>),
     JList(<<BatchElement(JStr(<<"1">>), JInt(1), NoPayload)>>),
     JList(<<BatchElement(JNone, JInt(1), NoPayload)>>),
     JList(<<BatchElement(Missing, JInt(2), NoPayload),
             BatchElement(JInt(2), JInt(1), NoPayload)>>),
     JList(<<BatchElement(JInt(1), JStr(<<"1">>), NoPayload)>>),
     JList(<<BatchElement(JInt(1), JStr(<<"1">>), NoPayload),
             BatchElement(JInt(2), JInt(2), NoPayload)>>),
     JList([i \in 1..(MaxImages + 1) |-> BatchElement(JInt(1), JInt(i), NoPayload)])}

\* Replies that are not a fenced array of well-typed objects.
OddMultiReplies ==
    {Return(<<Prose, Fence(s), Prose>>) : s \in OddBatches}
    \cup {Return(<<Bare(s)>>) : s \in OddBatches}
    \cup {Return(<<Fence(Malformed)>>),
          Raise("Exception", <<"insufficient credit balance">>)}

\* The answers to the single-image calls of a fallback.
FallbackObjects ==
    {SingleObject(JBool(FALSE), JInt(10), Missing, JInt(14), TRUE),
     SingleObject(JBool(TRUE), Missing, Missing, Missing, FALSE),
     SingleObject(JBool(TRUE), JInt(0), Missing, JInt(14), FALSE),
     SingleObject(JBool(TRUE), JInt(10), Missing, Missing, FALSE),
     SingleObject(JBool(TRUE), JInt(-5), Missing, Missing, FALSE),
     SingleObject(JBool(TRUE), JStr(<<"8", "5">>), Missing, Missing, FALSE)}

FallbackReplies ==
    {Return(<<Bare(s)>>) : s \in FallbackObjects}
    \cup {Raise("Exception", <<"insufficient credit balance">>)}

(***************************************************************************)
(* The state machine: one request per behaviour.                           *)
(***************************************************************************)
Init ==
    /\ pc = "idle"
    /\ op = "none"
    /\ images = <<>>
    /\ text = <<>>
    /\ calls = <<>>
    /\ fallbacks = 0
    /\ parsed = NotCalled
    /\ ret = NotCalled

\* analyzer.analyze(image_data)
Analyze ==
    /\ pc = "idle"
    /\ \E reply \in SingleReplies :
        /\ calls' = <<SingleCall(0, reply)>>
        /\ ret' = AnalyzeImage(reply)
    /\ pc' = "done"
    /\ op' = "analyze"
    /\ UNCHANGED <<images, text, fallbacks, parsed>>

\* analyzer._parse_single_response(response)
ParseSingle ==
    /\ pc = "idle"
    /\ \E response \in SingleTexts :
        /\ text' = response
        /\ ret' = ParseSingleResponse(response)
    /\ pc' = "done"
    /\ op' = "parse_single"
    /\ UNCHANGED <<images, calls, fallbacks, parsed>>

\* The replies a call leaves unread; none of them reaches the state.
Unread(imgs) ==
    [i \in 1..(2 * Len(imgs)) |-> Raise("Exception", <<>>)]

\* analyze_multiple when the capability answers the single-image calls with
\* `replies`, in order.
Served(imgs, multi, replies) ==
    AnalyzeMultipleImages(imgs, multi, replies \o Unread(imgs))

\* The number of single-image calls a call made.
SinglesMade(effect) ==
    Cardinality({i \in 1..Len(effect.calls) : effect.calls[i].fn = "analyze_image"})

Finish(name, imgs, effect) ==
    /\ pc' = "done"
    /\ op' = name
    /\ images' = imgs
    /\ calls' = effect.calls
    /\ fallbacks' = effect.fallbacks
    /\ parsed' = effect.parsed
    /\ ret' = effect.out
    /\ UNCHANGED text

\* The rest of analyze_multiple on several images once the capability has
\* answered the multi-image call: the single-image calls of the fallback,
\* if any, are answered in turn.
Compare(imgs, multi) ==
    LET n == Len(imgs)
    IN  \E unaided \in {Served(imgs, multi, <<>>)} :
          IF SinglesMade(unaided) = 0
          THEN Finish("analyze_multiple", imgs, unaided)
          ELSE \E first \in [1..n -> FallbackReplies] :
                 \E once \in {Served(imgs, multi, first)} :
                   IF SinglesMade(once) <= n
                   THEN Finish("analyze_multiple", imgs, once)
                   ELSE \E second \in [1..n -> FallbackReplies] :
                          \E twice \in {Served(imgs, multi, first \o second)} :
                            Finish("analyze_multiple", imgs, twice)

\* analyzer.analyze_multiple(images): the capability answers each call the
\* handler makes, and the handler runs to its end.
AnalyzeMultiple ==
    /\ pc = "idle"
    /\ \E imgs \in ImageLists :
        \/ /\ Len(imgs) = 1
           /\ \E reply \in SingleReplies :
                Finish("analyze_multiple", imgs, Served(imgs, NotCalled, <<reply>>))
        \/ /\ Len(imgs) > 1
           /\ \E skeleton \in Skeletons(Len(imgs)), payload \in Payloads :
                Compare(imgs, Return(<<Prose, Fence(BatchArray(skeleton, payload)), Prose>>))
        \/ /\ Len(imgs) > 1
           /\ \E multi \in OddMultiReplies : Compare(imgs, multi)

Next ==
    \/ Analyze
    \/ ParseSingle
    \/ AnalyzeMultiple

Spec == Init /\ [][Next]_vars

(***************************************************************************)
(* Properties.                                                             *)
(***************************************************************************)
Finished(name) == pc = "done" /\ op = name

Several == Finished("analyze_multiple") /\ Len(images) > 1

\* The reply to the multi-image call was a text, and what it decodes to.
MultiAnswered == Several /\ calls[1].reply.kind = "return"
MultiSource == ExtractJson(calls[1].reply.value)

\* A batch came back from the fallback path.
FallbackBatch == Several /\ fallbacks >= 1 /\ ret.kind = "return"

IsOrange(entry) == entry[2].is_orange = JBool(TRUE)
IsBatchOf(batch, n) == Len(batch) = n /\ \A p \in 1..n : batch[p][2].rank # JNone

\* text occurs in message as a run of consecutive pieces.
Embeds(message, piece) ==
    \E i \in 0..(Len(message) - Len(piece)) :
        SubSeq(message, i + 1, i + Len(piece)) = piece

\* The fields of a result besides is_orange, rank and error_message.
ContentFields == ResultFields \ {"is_orange", "rank", "error_message"}

\* C1: analyze_multiple on a non-empty list returns, whatever the capability
\* does, a batch with one entry per input image, every entry ranked.
C1_AlwaysFullyRanked ==
    Finished("analyze_multiple") =>
        /\ ret.kind = "return"
        /\ IsBatchOf(ret.value, Len(images))

\* C2: on a text that is malformed JSON, _parse_multi_response does not
\* raise: it enters the fallback and returns a batch as long as the image
\* list, every entry ranked.
C2_MalformedFallsBack ==
    (MultiAnswered /\ MultiSource = Malformed) =>
        /\ fallbacks >= 1
        /\ parsed.kind = "return"
        /\ IsBatchOf(parsed.value, Len(images))

\* C3: when the single-image call of the capability fails, analyze returns
\* a result that is no orange and whose error message embeds the text of
\* the failure.
C3_FailureBecomesResult ==
    (Finished("analyze") /\ calls[1].reply.kind = "raise") =>
        /\ ret.kind = "return"
        /\ ret.value.is_orange = JBool(FALSE)
        /\ ret.value.error_message.t = "str"
        /\ Embeds(ret.value.error_message.v, calls[1].reply.text)

C3_Witness ==
    /\ Finished("analyze")
    /\ calls[1].reply.kind = "raise"
    /\ calls[1].reply.text # <<>>
    /\ ret.kind = "return"
    /\ ret.value.error_message = JStr(AnalysisErrorPrefix \o calls[1].reply.text)

\* C4: analyze_multiple on one image returns a batch of that one image with
\* rank 1, and never makes the multi-image call.
C4_SingleImageBypass ==
    (Finished("analyze_multiple") /\ Len(images) = 1) =>
        /\ ret.kind = "return"
        /\ Len(ret.value) = 1
        /\ ret.value[1][1] = images[1]
        /\ ret.value[1][2].rank = JInt(1)
        /\ \A i \in 1..Len(calls) : calls[i].fn # "analyze_multiple_images"

C4_Witness ==
    /\ Finished("analyze_multiple")
    /\ Len(images) = 1
    /\ ret.kind = "return"
    /\ \E first \in {ret.value[1]} :
        /\ IsOrange(first)
        /\ first[2].rank = JInt(1)
        /\ first[2].sweetness_score = JInt(10)
    /\ Len(calls) = 1

\* C5: a batch the fallback returns for N images has rank p at position p,
\* so the ranks are 1..N, and it holds the input identifiers, each input
\* image once.
C5_FallbackRanksDense ==
    FallbackBatch =>
        /\ Len(ret.value) = Len(images)
        /\ \A p \in 1..Len(ret.value) : ret.value[p][2].rank = JInt(p)
        /\ \E order \in [1..Len(images) -> 1..Len(images)] :
            /\ \A p, q \in 1..Len(images) : order[p] = order[q] => p = q
            /\ \A p \in 1..Len(images) : ret.value[p][1] = images[order[p]]

C5_Witness ==
    /\ FallbackBatch
    /\ Len(images) = MaxImages
    /\ images[1] # images[Len(images)]
    /\ ret.value[1][1] = images[Len(images)]
    /\ \A p \in 1..Len(images) : ret.value[p][2].rank = JInt(p)

\* C6: in a batch the fallback returns, every result that is no orange
\* comes after every result that is an orange.
C6_NonOrangeLast ==
    FallbackBatch =>
        \A p, q \in 1..Len(ret.value) :
            (~IsOrange(ret.value[p]) /\ IsOrange(ret.value[q])) => q < p

\* The key the fallback is said to sort the oranges by: sweetness_score if
\* present, else brix_max if present, else 0.
C7_StatedKey(result) ==
    IF result.sweetness_score # JNone THEN result.sweetness_score
    ELSE IF result.brix_max # JNone THEN result.brix_max
    ELSE JInt(0)

\* C7: in a batch the fallback returns, the oranges are in descending order
\* of that key (where the keys are numbers).
C7_OrangesByStatedKey ==
    FallbackBatch =>
        \A p, q \in 1..Len(ret.value) :
            ( /\ IsOrange(ret.value[p]) /\ IsOrange(ret.value[q])
              /\ C7_StatedKey(ret.value[p][2]).t = "int"
              /\ C7_StatedKey(ret.value[q][2]).t = "int"
              /\ C7_StatedKey(ret.value[p][2]).v > C7_StatedKey(ret.value[q][2]).v )
            => p < q

\* The multi-image reply is an array of N objects, N the number of images,
\* whose ranks are a permutation of 1..N and whose image_index is in 1..N.
C8_WellFormedReply ==
    /\ MultiAnswered
    /\ MultiSource # Malformed
    /\ MultiSource.t = "list"
    /\ Len(MultiSource.v) = Len(images)
    /\ \A i \in 1..Len(images) :
        /\ MultiSource.v[i].t = "dict"
        /\ {"rank", "image_index"} \subseteq DOMAIN MultiSource.v[i].v
        /\ MultiSource.v[i].v["rank"] \in {JInt(r) : r \in 1..Len(images)}
        /\ MultiSource.v[i].v["image_index"] \in {JInt(r) : r \in 1..Len(images)}
    /\ \A i, j \in 1..Len(images) :
        MultiSource.v[i].v["rank"] = MultiSource.v[j].v["rank"] => i = j

\* C8: on such a reply _parse_multi_response returns N entries in ascending
\* order of rank, the entry of rank r named after the image its element
\* points to.
C8_RoundTrip ==
    C8_WellFormedReply =>
        /\ parsed.kind = "return"
        /\ Len(parsed.value) = Len(images)
        /\ \A i \in 1..Len(images) :
            \E r \in {MultiSource.v[i].v["rank"].v} :
                /\ parsed.value[r][2].rank = JInt(r)
                /\ parsed.value[r][1] = images[MultiSource.v[i].v["image_index"].v]

C8_Witness ==
    /\ C8_WellFormedReply
    /\ images = <<FileName(1), FileName(2)>>
    /\ MultiSource.v[1].v["rank"] = JInt(2)
    /\ MultiSource.v[1].v["image_index"] = JInt(2)
    /\ MultiSource.v[2].v["image_index"] = JInt(1)
    /\ parsed = Return(ret.value)
    /\ parsed.value[1][1] = FileName(1)
    /\ parsed.value[2][1] = FileName(2)

\* Every result the finished call produced.
ResultsProduced ==
    (IF Finished("analyze") \/ Finished("parse_single")
     THEN (IF ret.kind = "return" THEN {ret.value} ELSE {})
     ELSE {})
    \cup (IF Finished("analyze_multiple")
          THEN (IF ret.kind = "return"
                THEN {ret.value[p][2] : p \in 1..Len(ret.value)} ELSE {})
               \cup (IF parsed.kind = "return"
                     THEN {parsed.value[p][2] : p \in 1..Len(parsed.value)} ELSE {})
          ELSE {})

C9_ErrorOnly(result) ==
    /\ result.is_orange = JBool(FALSE)
    /\ result.error_message.t = "str"
    /\ result.error_message.v # <<>>
    /\ \A piece \in {result.error_message.v[i] : i \in 1..Len(result.error_message.v)} :
        piece # ""
    /\ \A f \in ContentFields : result[f] = JNone

\* The text handed to _parse_single_response decodes to an object whose
\* is_orange is false or absent.
C9_DecodedNotOrange ==
    /\ Finished("parse_single")
    /\ ExtractJson(text) # Malformed
    /\ ExtractJson(text).t = "dict"
    /\ \/ "is_orange" \notin DOMAIN ExtractJson(text).v
       \/ ExtractJson(text).v["is_orange"] = JBool(FALSE)

\* C9: a result that is no orange has a non-empty error message and no
\* grade, score, brix or analysis field; _parse_single_response returns such
\* a result for every object whose is_orange is false or absent.
C9_NotOrangeCarriesOnlyError ==
    /\ \A result \in ResultsProduced :
        result.is_orange # JBool(TRUE) => C9_ErrorOnly(result)
    /\ C9_DecodedNotOrange => (ret.kind = "return" /\ C9_ErrorOnly(ret.value))

C9_Witness ==
    /\ C9_DecodedNotOrange
    /\ "is_orange" \in DOMAIN ExtractJson(text).v
    /\ "sweetness_score" \in DOMAIN ExtractJson(text).v
    /\ "sweetness_grade" \in DOMAIN ExtractJson(text).v
    /\ "brix_max" \in DOMAIN ExtractJson(text).v
    /\ ret = Return(ErrorResult(NotOrangeMessage))

\* The display the claim states for a decoded object: "{min}~{max}" when
\* both bounds are present, none otherwise.
C10_StatedDisplay(data) ==
    IF /\ DictGet(data, "brix_min", JNone) # JNone
       /\ DictGet(data, "brix_max", JNone) # JNone
    THEN JStr(<<ToString(data.v["brix_min"].v), "~", ToString(data.v["brix_max"].v)>>)
    ELSE JNone

\* C10: a parsed orange result, single or batch, has brix_range
\* "{brix_min}~{brix_max}" exactly when the decoded object has both bounds,
\* whatever their values, and none otherwise.
C10_BrixDisplayIffBoth ==
    /\ ( /\ Finished("parse_single")
         /\ ret.kind = "return"
         /\ ret.value.is_orange = JBool(TRUE) )
       => ret.value.brix_range = C10_StatedDisplay(ExtractJson(text))
    /\ (C8_WellFormedReply /\ parsed.kind = "return")
       => \A i \in 1..Len(images) :
            parsed.value[MultiSource.v[i].v["rank"].v][2].brix_range
                = C10_StatedDisplay(MultiSource.v[i])

\* analyze got a text from the capability, and the text failed to parse:
\* it does not decode, or it decodes to a value that is no object.
C11_ParseFailed ==
    /\ Finished("analyze")
    /\ calls[1].reply.kind = "return"
    /\ \E source \in {ExtractJson(calls[1].reply.value)} :
        source = Malformed \/ source.t # "dict"

\* C11: every parse failure of a single-image reply, be it a text that does
\* not decode or one that decodes to a value that is no object, gives the
\* result that is no orange with the one fixed parse-error message.
C11_ParseFailureFixedMessage ==
    C11_ParseFailed => ret = Return(ErrorResult(ParseErrorMessage))

\* _parse_multi_response decoded the reply and returned the batch it built
\* from it, without the fallback.
C12_DecodedBatch ==
    /\ MultiAnswered
    /\ fallbacks = 0
    /\ parsed.kind = "return"

\* C12: the batch _parse_multi_response builds from a decoded reply is
\* ascending by rank, and every entry without a rank comes after every
\* entry with one, whatever rank values the reply holds.
C12_AscendingAbsentLast ==
    C12_DecodedBatch =>
        \A p, q \in 1..Len(parsed.value) :
            p < q =>
                \E before \in {parsed.value[p][2].rank},
                   after \in {parsed.value[q][2].rank} :
                    /\ before = JNone => after = JNone
                    /\ (before.t = "int" /\ after.t = "int")
                           => before.v <= after.v

\* The positions in the call log of the calls of a capability method.
C13_CallsOf(fn) == {i \in 1..Len(calls) : calls[i].fn = fn}

\* C13: analyze_multiple on two or more images calls the multi-image
\* capability once, before every single-image call, runs the fallback at
\* most once, and so makes at most one single-image call per input image.
C13_OneComparisonOneFallback ==
    Several =>
        /\ C13_CallsOf("analyze_multiple_images") = {1}
        /\ fallbacks <= 1
        /\ Cardinality(C13_CallsOf("analyze_image")) <= Len(images)
        /\ \A i, j \in C13_CallsOf("analyze_image") :
               calls[i].image = calls[j].image => i = j

====
